---- MODULE Spec2Model ----
(***************************************************************************)
(* A model of evdev/events.py: the generic InputEvent record, the four     *)
(* event classes KeyEvent, RelEvent, AbsEvent and SynEvent that wrap it,   *)
(* and the event_factory table that maps an event type to its class.       *)
(*                                                                         *)
(* Python values whose type matters are tagged: a string is [s |-> ...],   *)
(* a list is [l |-> ...], an integer carried by an exception is            *)
(* [i |-> ...].  An object with __slots__ is a record that holds exactly   *)
(* the slots that have been assigned: a slot that was never assigned is    *)
(* absent from the record's DOMAIN, and reading it raises AttributeError.  *)
(* The outcome of a call is [status |-> "ok", obj |-> ...] when it returns *)
(* and [status |-> "raised", exc |-> ...] when an exception leaves it.     *)
(***************************************************************************)
EXTENDS Integers, Sequences, FiniteSets, TLC

VARIABLES
    event,          \* the InputEvent under classification
    keys,           \* ecodes.keys: code -> name, or list of alias names
    REL,            \* ecodes.REL:  code -> name
    ABS,            \* ecodes.ABS:  code -> name
    SYN,            \* ecodes.SYN:  code -> name
    event_factory,  \* event type -> class
    call,           \* the last call made: [fn, cls, allow_unknown]
    ret,            \* the outcome of the last construction or dispatch
    first,          \* the outcome of the construction before a re-classification
    text            \* the outcome of the last str() of the variant in ret

vars == <<event, keys, REL, ABS, SYN, event_factory, call, ret, first, text>>

tables == <<keys, REL, ABS, SYN, event_factory>>

----------------------------------------------------------------------------
(* Bounds of the model. *)

\* event types range over 0..MaxType: EV_SYN, EV_KEY, EV_REL, EV_ABS and unregistered ones
MaxType == 4

\* event values range over -MaxValue..MaxValue
MaxValue == 3

\* event codes: small ones, the ends of the one-byte range, codes above it, the u16 maximum
Codes == {0, 1, 3, 28, 255, 256, 272, 768, 65535}

Secs == {0, 1337197425}

Usecs == {0, 477835}

Types == 0..MaxType

Values == (0 - MaxValue)..MaxValue

----------------------------------------------------------------------------
(* evdev.ecodes: the event types and the name tables that events.py imports. *)

EV_SYN == 0

EV_KEY == 1

EV_REL == 2

EV_ABS == 3

PyStr(s) == [s |-> s]

PyList(l) == [l |-> l]

PyInt(i) == [i |-> i]

\* keys: a code with several aliases holds the list of them, in registration order
ecodes_keys ==
    (1 :> PyStr("KEY_ESC")) @@ (28 :> PyStr("KEY_ENTER"))
    @@ (256 :> PyList(<<"BTN_0", "BTN_MISC">>))
    @@ (272 :> PyList(<<"BTN_LEFT", "BTN_MOUSE">>))

ecodes_REL == (0 :> PyStr("REL_X")) @@ (1 :> PyStr("REL_Y"))

ecodes_ABS == (0 :> PyStr("ABS_X")) @@ (1 :> PyStr("ABS_Y")) @@ (28 :> PyStr("ABS_TOOL_WIDTH"))

ecodes_SYN == (0 :> PyStr("SYN_REPORT")) @@ (1 :> PyStr("SYN_CONFIG")) @@ (3 :> PyStr("SYN_DROPPED"))

----------------------------------------------------------------------------
(* Calls: returning and raising. *)

Return(obj) == [status |-> "ok", obj |-> obj]

Raise(type, args) == [status |-> "raised", exc |-> [type |-> type, args |-> args]]

NoOutcome == [status |-> "none"]

\* table[code] of a dict: the KeyError of a missing key carries the key
KeyError(code) == Raise("KeyError", <<PyInt(code)>>)

----------------------------------------------------------------------------
(* String formatting. *)

DecDigits == <<"0", "1", "2", "3", "4", "5", "6", "7", "8", "9">>

HexDigits == <<"0", "1", "2", "3", "4", "5", "6", "7", "8", "9", "A", "B", "C", "D", "E", "F">>

RECURSIVE Dec(_)
\* '{}' of a non-negative int
Dec(n) == IF n < 10 THEN DecDigits[n + 1] ELSE Dec(n \div 10) \o DecDigits[(n % 10) + 1]

\* '{}' of an int
FormatInt(n) == IF n < 0 THEN "-" \o Dec(0 - n) ELSE Dec(n)

RECURSIVE Hex(_)
\* '{:X}' of a non-negative int
Hex(n) == IF n < 16 THEN HexDigits[n + 1] ELSE Hex(n \div 16) \o HexDigits[(n % 16) + 1]

RECURSIVE ZeroPad(_, _)
\* zero-fill to a minimum width; a longer string is left as it is
ZeroPad(str, width) == IF Len(str) >= width THEN str ELSE ZeroPad("0" \o str, width)

\* the format without its zero fill: '0x{:X}'.format(code)
Format02X_unpadded(code) == "0x" \o Hex(code)

\* '0x{:02X}'.format(code)
Format02X(code) == "0x" \o ZeroPad(Hex(code), 2)

\* '{:f}'.format(event.timestamp()): sec + usec / 1000000.0 with six decimals
FormatTimestamp(ev) == Dec(ev.sec) \o "." \o ZeroPad(Dec(ev.usec), 6)

RECURSIVE JoinRepr(_)
JoinRepr(l) ==
    IF Len(l) = 0 THEN ""
    ELSE IF Len(l) = 1 THEN "'" \o l[1] \o "'"
    ELSE "'" \o l[1] \o "', " \o JoinRepr(Tail(l))

\* '{}' of a keycode: a str as it is, a list as its repr
FormatValue(v) == IF "s" \in DOMAIN v THEN v.s ELSE "[" \o JoinRepr(v.l) \o "]"

----------------------------------------------------------------------------
(* InputEvent *)

InputEvent(sec, usec, type, code, value) ==
    [class |-> "InputEvent", sec |-> sec, usec |-> usec,
     type |-> type, code |-> code, value |-> value]

----------------------------------------------------------------------------
(* KeyEvent *)

key_up == 0

key_down == 1

key_hold == 2

KeyEvent_allow_unknown == FALSE

\* the branches for 2 and 1 exchanged
KeyEvent_state_swapped(ev) ==
    IF ev.value = 0 THEN [class |-> "KeyEvent", scancode |-> ev.code, keystate |-> key_up]
    ELSE IF ev.value = 2 THEN [class |-> "KeyEvent", scancode |-> ev.code, keystate |-> key_down]
    ELSE IF ev.value = 1 THEN [class |-> "KeyEvent", scancode |-> ev.code, keystate |-> key_hold]
    ELSE [class |-> "KeyEvent", scancode |-> ev.code]

\* the slots assigned before the lookup: scancode, and keystate for a value of 0, 2 or 1
KeyEvent_state(ev) ==
    IF ev.value = 0 THEN [class |-> "KeyEvent", scancode |-> ev.code, keystate |-> key_up]
    ELSE IF ev.value = 2 THEN [class |-> "KeyEvent", scancode |-> ev.code, keystate |-> key_hold]
    ELSE IF ev.value = 1 THEN [class |-> "KeyEvent", scancode |-> ev.code, keystate |-> key_down]
    ELSE [class |-> "KeyEvent", scancode |-> ev.code]

\* a constructor that keeps only the first alias of a code with several names
KeyEvent_first_alias(ev, allow_unknown) ==
    LET self == KeyEvent_state(ev) IN
    IF ev.code \in DOMAIN keys
    THEN Return(self @@ [keycode |-> IF "l" \in DOMAIN keys[ev.code]
                                     THEN PyStr(keys[ev.code].l[1])
                                     ELSE keys[ev.code],
                         event |-> ev])
    ELSE IF allow_unknown
         THEN Return(self @@ [keycode |-> PyStr(Format02X(ev.code)), event |-> ev])
         ELSE KeyError(ev.code)

KeyEvent(ev, allow_unknown) ==
    LET self == KeyEvent_state(ev) IN
    IF ev.code \in DOMAIN keys
    THEN Return(self @@ [keycode |-> keys[ev.code], event |-> ev])
    ELSE IF allow_unknown
         THEN Return(self @@ [keycode |-> PyStr(Format02X(ev.code)), event |-> ev])
         ELSE KeyError(ev.code)

KeyEvent__str__(self) ==
    IF "keystate" \notin DOMAIN self
    THEN Raise("AttributeError", <<PyStr("keystate")>>)
    ELSE LET names == <<"up", "down", "hold">>
             i == self.keystate
             ks == IF i \in 0..2 THEN names[i + 1]
                   ELSE IF i \in -3..-1 THEN names[i + 4]
                   ELSE "unknown"
         IN Return(PyStr("key event at " \o FormatTimestamp(self.event) \o ", "
                         \o FormatInt(self.scancode) \o " (" \o FormatValue(self.keycode)
                         \o "), " \o ks))

----------------------------------------------------------------------------
(* RelEvent, AbsEvent, SynEvent *)

RelEvent_allow_unknown == FALSE

\* a constructor that falls back whatever allow_unknown says
RelEvent_ignoring_flag(ev, allow_unknown) ==
    IF ev.code \in DOMAIN REL
    THEN Return([class |-> "RelEvent", keycode |-> REL[ev.code], event |-> ev])
    ELSE Return([class |-> "RelEvent", keycode |-> PyStr(Format02X(ev.code)), event |-> ev])

RelEvent(ev, allow_unknown) ==
    IF ev.code \in DOMAIN REL
    THEN Return([class |-> "RelEvent", keycode |-> REL[ev.code], event |-> ev])
    ELSE IF allow_unknown
         THEN Return([class |-> "RelEvent", keycode |-> PyStr(Format02X(ev.code)), event |-> ev])
         ELSE KeyError(ev.code)

AbsEvent_allow_unknown == FALSE

\* a constructor that looks the code up in the relative-axis table
AbsEvent_from_REL(ev, allow_unknown) ==
    IF ev.code \in DOMAIN REL
    THEN Return([class |-> "AbsEvent", keycode |-> REL[ev.code], event |-> ev])
    ELSE IF allow_unknown
         THEN Return([class |-> "AbsEvent", keycode |-> PyStr(Format02X(ev.code)), event |-> ev])
         ELSE KeyError(ev.code)

AbsEvent(ev, allow_unknown) ==
    IF ev.code \in DOMAIN ABS
    THEN Return([class |-> "AbsEvent", keycode |-> ABS[ev.code], event |-> ev])
    ELSE IF allow_unknown
         THEN Return([class |-> "AbsEvent", keycode |-> PyStr(Format02X(ev.code)), event |-> ev])
         ELSE KeyError(ev.code)

\* the default of the other three classes
SynEvent_allow_unknown_false == FALSE

SynEvent_allow_unknown == TRUE

\* a constructor that wraps a copy of the event whose code is cut to one byte
SynEvent_rewrapping(ev, allow_unknown) ==
    LET copy == [ev EXCEPT !.code = ev.code % 256] IN
    IF ev.code \in DOMAIN SYN
    THEN Return([class |-> "SynEvent", keycode |-> SYN[ev.code], event |-> copy])
    ELSE IF allow_unknown
         THEN Return([class |-> "SynEvent", keycode |-> PyStr(Format02X(ev.code)), event |-> copy])
         ELSE KeyError(ev.code)

SynEvent(ev, allow_unknown) ==
    IF ev.code \in DOMAIN SYN
    THEN Return([class |-> "SynEvent", keycode |-> SYN[ev.code], event |-> ev])
    ELSE IF allow_unknown
         THEN Return([class |-> "SynEvent", keycode |-> PyStr(Format02X(ev.code)), event |-> ev])
         ELSE KeyError(ev.code)

----------------------------------------------------------------------------
(* event_factory and its use by evdev.util.categorize() *)

Classes == {"KeyEvent", "RelEvent", "AbsEvent", "SynEvent"}

\* the table with the two axis classes exchanged
event_factory_dict_swapped ==
    (EV_KEY :> "KeyEvent") @@ (EV_REL :> "AbsEvent")
    @@ (EV_ABS :> "RelEvent") @@ (EV_SYN :> "SynEvent")

event_factory_dict ==
    (EV_KEY :> "KeyEvent") @@ (EV_REL :> "RelEvent")
    @@ (EV_ABS :> "AbsEvent") @@ (EV_SYN :> "SynEvent")

\* cls(ev, allow_unknown) for a class taken from event_factory
Construct(cls, ev, allow_unknown) ==
    CASE cls = "KeyEvent" -> KeyEvent(ev, allow_unknown)
      [] cls = "RelEvent" -> RelEvent(ev, allow_unknown)
      [] cls = "AbsEvent" -> AbsEvent(ev, allow_unknown)
      [] cls = "SynEvent" -> SynEvent(ev, allow_unknown)

\* the value of allow_unknown when the argument is omitted
DefaultAllowUnknown(cls) ==
    CASE cls = "KeyEvent" -> KeyEvent_allow_unknown
      [] cls = "RelEvent" -> RelEvent_allow_unknown
      [] cls = "AbsEvent" -> AbsEvent_allow_unknown
      [] cls = "SynEvent" -> SynEvent_allow_unknown

\* categorize(ev): event_factory[ev.type](ev) for a registered type, else ev itself
categorize(ev) ==
    IF ev.type \in DOMAIN event_factory
    THEN Construct(event_factory[ev.type], ev, DefaultAllowUnknown(event_factory[ev.type]))
    ELSE Return(ev)

----------------------------------------------------------------------------
(* The state machine. *)

Init ==
    /\ \E sec \in Secs, usec \in Usecs, type \in Types, code \in Codes, value \in Values :
           event = InputEvent(sec, usec, type, code, value)
    /\ keys = ecodes_keys
    /\ REL = ecodes_REL
    /\ ABS = ecodes_ABS
    /\ SYN = ecodes_SYN
    /\ event_factory = event_factory_dict
    /\ call = [fn |-> "none", cls |-> "", given |-> FALSE, allow_unknown |-> FALSE]
    /\ ret = NoOutcome
    /\ first = NoOutcome
    /\ text = NoOutcome

\* a constructor that takes the name with keys.pop(code) and so empties the table's entry
NewKeyEvent_popping ==
    \E given \in BOOLEAN, arg \in BOOLEAN :
        LET allow_unknown == IF given THEN arg ELSE KeyEvent_allow_unknown IN
        /\ ret' = KeyEvent(event, allow_unknown)
        /\ call' = [fn |-> "new", cls |-> "KeyEvent", given |-> given,
                    allow_unknown |-> allow_unknown]
        /\ first' = NoOutcome
        /\ text' = NoOutcome
        /\ keys' = [c \in DOMAIN keys \ {event.code} |-> keys[c]]
        /\ UNCHANGED <<event, REL, ABS, SYN, event_factory>>

\* KeyEvent(event, allow_unknown), or KeyEvent(event) with the argument omitted
NewKeyEvent ==
    \E given \in BOOLEAN, arg \in BOOLEAN :
        LET allow_unknown == IF given THEN arg ELSE KeyEvent_allow_unknown IN
        /\ ret' = KeyEvent(event, allow_unknown)
        /\ call' = [fn |-> "new", cls |-> "KeyEvent", given |-> given,
                    allow_unknown |-> allow_unknown]
        /\ first' = NoOutcome
        /\ text' = NoOutcome
        /\ UNCHANGED <<event, tables>>

\* RelEvent(event, allow_unknown), or RelEvent(event) with the argument omitted
NewRelEvent ==
    \E given \in BOOLEAN, arg \in BOOLEAN :
        LET allow_unknown == IF given THEN arg ELSE RelEvent_allow_unknown IN
        /\ ret' = RelEvent(event, allow_unknown)
        /\ call' = [fn |-> "new", cls |-> "RelEvent", given |-> given,
                    allow_unknown |-> allow_unknown]
        /\ first' = NoOutcome
        /\ text' = NoOutcome
        /\ UNCHANGED <<event, tables>>

\* AbsEvent(event, allow_unknown), or AbsEvent(event) with the argument omitted
NewAbsEvent ==
    \E given \in BOOLEAN, arg \in BOOLEAN :
        LET allow_unknown == IF given THEN arg ELSE AbsEvent_allow_unknown IN
        /\ ret' = AbsEvent(event, allow_unknown)
        /\ call' = [fn |-> "new", cls |-> "AbsEvent", given |-> given,
                    allow_unknown |-> allow_unknown]
        /\ first' = NoOutcome
        /\ text' = NoOutcome
        /\ UNCHANGED <<event, tables>>

\* SynEvent(event, allow_unknown), or SynEvent(event) with the argument omitted
NewSynEvent ==
    \E given \in BOOLEAN, arg \in BOOLEAN :
        LET allow_unknown == IF given THEN arg ELSE SynEvent_allow_unknown IN
        /\ ret' = SynEvent(event, allow_unknown)
        /\ call' = [fn |-> "new", cls |-> "SynEvent", given |-> given,
                    allow_unknown |-> allow_unknown]
        /\ first' = NoOutcome
        /\ text' = NoOutcome
        /\ UNCHANGED <<event, tables>>

\* categorize(event)
Categorize ==
    /\ ret' = categorize(event)
    /\ call' = IF event.type \in DOMAIN event_factory
               THEN [fn |-> "categorize", cls |-> event_factory[event.type], given |-> FALSE,
                     allow_unknown |-> DefaultAllowUnknown(event_factory[event.type])]
               ELSE [fn |-> "categorize", cls |-> "", given |-> FALSE, allow_unknown |-> FALSE]
    /\ first' = NoOutcome
    /\ text' = NoOutcome
    /\ UNCHANGED <<event, tables>>

\* type(variant)(variant.event, allow_unknown): the variant's own event, classified again
Reclassify ==
    /\ ret.status = "ok"
    /\ ret.obj.class \in Classes
    /\ first' = ret
    /\ ret' = Construct(ret.obj.class, ret.obj.event, call.allow_unknown)
    /\ call' = [fn |-> "reclassify", cls |-> ret.obj.class, given |-> TRUE,
                allow_unknown |-> call.allow_unknown]
    /\ text' = NoOutcome
    /\ UNCHANGED <<event, tables>>

\* str(variant) of a KeyEvent
StrKeyEvent ==
    /\ ret.status = "ok"
    /\ ret.obj.class = "KeyEvent"
    /\ text' = KeyEvent__str__(ret.obj)
    /\ UNCHANGED <<event, tables, call, ret, first>>

Next ==
    \/ NewKeyEvent
    \/ NewRelEvent
    \/ NewAbsEvent
    \/ NewSynEvent
    \/ Categorize
    \/ Reclassify
    \/ StrKeyEvent

Spec == Init /\ [][Next]_vars

----------------------------------------------------------------------------
(* Properties. *)

\* the name table a class looks its codes up in
TableOf(cls) ==
    CASE cls = "KeyEvent" -> keys
      [] cls = "RelEvent" -> REL
      [] cls = "AbsEvent" -> ABS
      [] cls = "SynEvent" -> SYN

\* the last call ran one of the four constructors on event
Constructed == call.cls \in Classes

Absent == event.code \notin DOMAIN TableOf(call.cls)

Present == event.code \in DOMAIN TableOf(call.cls)

\* an item of the exception, at another place than the code, names the category
CarriesCategory(exc, cls) ==
    \E i, j \in DOMAIN exc.args :
        /\ i # j
        /\ exc.args[i] = PyInt(event.code)
        /\ \/ exc.args[j] = PyStr(cls)
           \/ exc.args[j] = PyStr("key") \/ exc.args[j] = PyStr("rel")
           \/ exc.args[j] = PyStr("abs") \/ exc.args[j] = PyStr("syn")
           \/ exc.args[j] = PyInt(EV_KEY) \/ exc.args[j] = PyInt(EV_REL)
           \/ exc.args[j] = PyInt(EV_ABS) \/ exc.args[j] = PyInt(EV_SYN)

\* C1 (as stated): for each of the four constructors and every code absent from
\* its table, construction with allow_unknown = False raises an error that
\* carries both the category and the unresolved code, and returns no variant.
C1_ErrorCarriesCategoryAndCode ==
    (Constructed /\ ~call.allow_unknown /\ Absent)
        => /\ ret.status = "raised"
           /\ "obj" \notin DOMAIN ret
           /\ CarriesCategory(ret.exc, call.cls)

\* C1 (amended): for each of the four constructors and every code absent from
\* its table, construction with allow_unknown = False raises the KeyError of the
\* failed lookup, which carries the unresolved code and nothing else, and
\* returns no variant.
C1_KeyErrorCarriesCode ==
    (Constructed /\ ~call.allow_unknown /\ Absent)
        => /\ ret.status = "raised"
           /\ "obj" \notin DOMAIN ret
           /\ ret.exc.type = "KeyError"
           /\ ret.exc.args = <<PyInt(event.code)>>

C1_Witness ==
    /\ call.fn = "new" /\ call.cls = "SynEvent" /\ call.given /\ ~call.allow_unknown
    /\ event.code = 768
    /\ ret.status = "raised"

\* what str() of a KeyEvent whose value is none of 0, 1, 2 is claimed to give
UnknownStateText ==
    PyStr("key event at " \o FormatTimestamp(event) \o ", " \o FormatInt(event.code)
          \o " (" \o FormatValue(ret.obj.keycode) \o "), unknown")

\* C2: for a KeyEvent built from an event whose value is not 0, 1 or 2
\* (negative values included), str() does not fail and renders the state as
\* "unknown".
C2_UnknownValueRendersUnknown ==
    (text.status # "none" /\ event.value \notin {0, 1, 2})
        => /\ text.status = "ok"
           /\ text.obj = UnknownStateText

\* '0x{:02X}'.format(code) as Python prints it for the codes of the model
ExpectedFallback ==
    (0 :> "0x00") @@ (1 :> "0x01") @@ (3 :> "0x03") @@ (28 :> "0x1C") @@ (255 :> "0xFF")
    @@ (256 :> "0x100") @@ (272 :> "0x110") @@ (768 :> "0x300") @@ (65535 :> "0xFFFF")

\* the number of hexadecimal digits of a 16-bit code
HexLen(code) == IF code < 16 THEN 1 ELSE IF code < 256 THEN 2 ELSE IF code < 4096 THEN 3 ELSE 4

\* C3 (as stated): for each constructor and every 16-bit code absent from its
\* table, construction with allow_unknown = True succeeds and keycode is "0x"
\* followed by a two-hex-digit uppercase representation of the code.
C3_FallbackHasTwoDigits ==
    (Constructed /\ call.allow_unknown /\ Absent)
        => /\ ret.status = "ok"
           /\ "s" \in DOMAIN ret.obj.keycode
           /\ Len(ret.obj.keycode.s) = 4
           /\ ret.obj.keycode.s = ExpectedFallback[event.code]

\* C3 (amended): for each constructor and every 16-bit code absent from its
\* table, construction with allow_unknown = True succeeds and keycode is "0x"
\* followed by the uppercase hexadecimal digits of the code, zero-filled to at
\* least two digits: two digits up to 255, three or four digits above.
C3_FallbackIsPaddedHex ==
    (Constructed /\ call.allow_unknown /\ Absent)
        => /\ ret.status = "ok"
           /\ ret.obj.keycode = PyStr(ExpectedFallback[event.code])
           /\ Len(ret.obj.keycode.s) = 2 + (IF HexLen(event.code) < 2 THEN 2 ELSE HexLen(event.code))

C3_Witness ==
    /\ call.fn = "new" /\ call.cls = "KeyEvent" /\ call.allow_unknown
    /\ event.code = 768
    /\ ret.status = "ok"
    /\ ret.obj.keycode = PyStr("0x300")

\* C4: for each constructor and every code present in its table, construction
\* succeeds whatever allow_unknown is, and keycode is what the table holds for
\* that code.
C4_PresentCodeResolves ==
    (Constructed /\ Present)
        => /\ ret.status = "ok"
           /\ ret.obj.class = call.cls
           /\ ret.obj.keycode = TableOf(call.cls)[event.code]

C4_Witness ==
    /\ call.fn = "new" /\ call.cls = "AbsEvent" /\ call.given /\ ~call.allow_unknown
    /\ event.code = 28
    /\ ret.status = "ok"
    /\ ret.obj.keycode = PyStr("ABS_TOOL_WIDTH")

\* C5: for a KeyEvent whose code resolves (or with allow_unknown = True),
\* keystate is key_up for value 0, key_down for value 1 and key_hold for value
\* 2; for every other value construction still succeeds and keystate is left
\* unset.
C5_KeystateFromValue ==
    (Constructed /\ call.cls = "KeyEvent" /\ (Present \/ call.allow_unknown))
        => /\ ret.status = "ok"
           /\ event.value = 0 => ("keystate" \in DOMAIN ret.obj /\ ret.obj.keystate = 0)
           /\ event.value = 1 => ("keystate" \in DOMAIN ret.obj /\ ret.obj.keystate = 1)
           /\ event.value = 2 => ("keystate" \in DOMAIN ret.obj /\ ret.obj.keystate = 2)
           /\ event.value \notin {0, 1, 2} => "keystate" \notin DOMAIN ret.obj

C5_Witness ==
    /\ call.fn = "new" /\ call.cls = "KeyEvent"
    /\ event.value = -1
    /\ ret.status = "ok"
    /\ "keystate" \notin DOMAIN ret.obj

\* the class each registered event type is to be dispatched to
Designated ==
    (1 :> "KeyEvent") @@ (2 :> "RelEvent") @@ (3 :> "AbsEvent") @@ (0 :> "SynEvent")

\* C6 (as stated): categorize turns an event whose type is EV_KEY, EV_REL,
\* EV_ABS or EV_SYN into exactly the KeyEvent, RelEvent, AbsEvent or SynEvent,
\* and returns an event of any other type unchanged, without an error.
C6_DispatchYieldsVariant ==
    call.fn = "categorize"
        => IF event.type \in DOMAIN Designated
           THEN ret.status = "ok" /\ ret.obj.class = Designated[event.type]
                /\ ret.obj.event = event
           ELSE ret = Return(event)

\* C6 (amended): categorize hands an event whose type is EV_KEY, EV_REL, EV_ABS
\* or EV_SYN to exactly the KeyEvent, RelEvent, AbsEvent or SynEvent constructor
\* with allow_unknown omitted: the result is that variant whenever the code is
\* in the class's table, and always for SynEvent; for a code absent from the
\* table of KeyEvent, RelEvent or AbsEvent the constructor's KeyError comes
\* out instead.  An event of any other type is returned unchanged, without an
\* error.
C6_DispatchYieldsVariantOrKeyError ==
    call.fn = "categorize"
        => IF event.type \in DOMAIN Designated
           THEN LET cls == Designated[event.type] IN
                /\ call.cls = cls
                /\ IF event.code \in DOMAIN TableOf(cls) \/ cls = "SynEvent"
                   THEN ret.status = "ok" /\ ret.obj.class = cls /\ ret.obj.event = event
                   ELSE ret.status = "raised" /\ ret.exc.type = "KeyError"
                        /\ ret.exc.args = <<PyInt(event.code)>>
           ELSE ret = Return(event)

C6_Witness ==
    /\ call.fn = "categorize"
    /\ event.type = EV_ABS /\ event.code = 28
    /\ ret.status = "ok"
    /\ ret.obj.class = "AbsEvent"

C6_WitnessPassThrough ==
    /\ call.fn = "categorize"
    /\ event.type = 4
    /\ ret = Return(event)

\* C7: called with allow_unknown omitted, SynEvent never fails, whatever the
\* code, while KeyEvent, RelEvent and AbsEvent fail for every code absent
\* from their table.
C7_DefaultAllowUnknown ==
    (Constructed /\ call.fn \in {"new", "categorize"} /\ ~call.given)
        => /\ call.cls = "SynEvent" => ret.status = "ok"
           /\ (call.cls \in {"KeyEvent", "RelEvent", "AbsEvent"} /\ Absent)
                  => ret.status = "raised"

C7_Witness ==
    /\ call.fn = "new" /\ call.cls = "SynEvent" /\ ~call.given
    /\ event.code = 65535
    /\ ret.status = "ok"
    /\ ret.obj.keycode = PyStr("0xFFFF")

\* the code of the event has several aliases in keys
HasAliases == event.code \in DOMAIN keys /\ "l" \in DOMAIN keys[event.code]

\* C8 (as stated): when a code has several aliases in keys, the keycode of the
\* KeyEvent is one name, the first registered alias, not the collection of
\* aliases.
C8_KeycodeIsFirstAlias ==
    (Constructed /\ call.cls = "KeyEvent" /\ HasAliases)
        => /\ ret.status = "ok"
           /\ ret.obj.keycode = PyStr(keys[event.code].l[1])

\* C8 (amended): when a code has several aliases in keys, the keycode of the
\* KeyEvent is the table's entry as it is, the whole list of aliases in
\* registration order; the constructor picks no representative.
C8_KeycodeIsAliasList ==
    (Constructed /\ call.cls = "KeyEvent" /\ HasAliases)
        => /\ ret.status = "ok"
           /\ "l" \in DOMAIN ret.obj.keycode
           /\ Len(ret.obj.keycode.l) >= 2
           /\ ret.obj.keycode = PyList(keys[event.code].l)

C8_Witness ==
    /\ call.fn = "new" /\ call.cls = "KeyEvent"
    /\ event.code = 272
    /\ ret.status = "ok"
    /\ ret.obj.keycode = PyList(<<"BTN_LEFT", "BTN_MOUSE">>)

WrapsEvent ==
    (ret.status = "ok" /\ ret.obj.class \in Classes)
        => /\ ret.obj.event = event
           /\ ret.obj.class = "KeyEvent" => ret.obj.scancode = event.code

\* C10: a construction, whether it succeeds or fails, leaves the five fields
\* of the event, the four name tables and event_factory unchanged; on success
\* the variant wraps that same event, and a KeyEvent's scancode is event.code.
C10_ConstructionFrame ==
    /\ []WrapsEvent
    /\ [][event' = event /\ tables' = tables]_vars

C10_Witness ==
    /\ call.fn = "new" /\ call.cls = "KeyEvent"
    /\ ret.status = "ok"
    /\ ret.obj.event = event
    /\ ret.obj.scancode = 28

====
